---- MODULE Spec2Model ----
(***************************************************************************)
(* Model of the build pipeline of tools/launcher/build_gui.py (BuilderGUI). *)
(*                                                                         *)
(* Threads: the Tk main thread (start_build, stop_build, the root.after    *)
(* callbacks), one build worker thread (run_build and the run_command      *)
(* calls it makes) and the external process the worker has spawned.        *)
(* run_build is cut at the points where it touches state shared with the   *)
(* main thread or with the external process: the announcement of a         *)
(* command, Popen, each readline, wait, and the code between the return of *)
(* one run_command call and the next call.                                 *)
(***************************************************************************)
EXTENDS Integers, Sequences, FiniteSets, TLC

\* Bounds of the model.
MaxLines == 3      \* lines an external command still has to write when spawned
PipeCap == 1       \* lines the stdout pipe holds before the writer blocks
MaxBuilds == 2     \* builds started by the owner in one run
MaxLog == 4        \* log() calls of the producer thread in one run

None == "None"

VARIABLES
    platform,          \* sys.platform: "win32" or "posix"
    host_alive,        \* the builder process itself is running
    is_building,       \* self.is_building
    process,           \* self.process: NoProcess or the state of the Popen object
    build_button,      \* state of self.build_button
    stop_button,       \* state of self.stop_button
    status,            \* self.status_var
    after_queue,       \* callbacks scheduled with root.after(0, ...)
    owner_pc,          \* position of the main thread inside stop_build
    pc,                \* position of the worker thread
    cmd,               \* run_command: the command being run
    extra_env,         \* run_command: the extra_env argument
    line,              \* run_command: the line readline has just returned
    result,            \* return value of the last run_command call
    electron_version,  \* run_build local: version string known or not
    rebuild_success,   \* run_build local
    success,           \* run_build local
    signing_env,       \* run_build local: names of the injected variables
    actual_app_dir,    \* latest step: "unset", "found" or "notfound"
    node_file,         \* latest step: better_sqlite3.node as it was checked
    source_nm,         \* latest step: app/node_modules of the project
    nm_before,         \* latest step: packaged node_modules as it was found
    copied,            \* latest step: repair copy done ("ok") or not ("no")
    signing_vars,      \* latest step: the signing fields as step 5 read them
    nm,                \* packaged node_modules now
    called,            \* commands run_command was called with, this build
    pushed,            \* entries the latest step of the worker put on log_queue
    owner_pushed,      \* entries the latest handler of the main thread put on it
    stop_in,           \* stage whose line-read loop stop_build interrupted first
    builds,            \* builds started so far
    log_queue,         \* self.log_queue: the (message, tag) pairs pending
    log_text,          \* self.log_text: the entries inserted, top to bottom
    log_file,          \* self.log_file: whether it is set, and the file's lines
    log_calls,         \* the entries log() has put on the queue, in put order
    log_pc,            \* the worker thread inside log()
    owner_log_pc,      \* the main thread inside log()
    poll_pc,           \* the main thread inside process_log_queue
    children,          \* the processes the command of self.process has spawned
    output,            \* run_command: the tags of the lines logged so far
    server_js,         \* the directories of the packaged tree with a server.js
    scandir_order,     \* the order in which os.scandir yields subdirectories
    server_path,       \* step 5b: the match of rglob taken, NoPath if none
    path_pc            \* step 5b: position of the search

vars == <<platform, host_alive, is_building, process, build_button,
          stop_button, status, after_queue, owner_pc, pc, cmd, extra_env,
          line, result, electron_version, rebuild_success, success, signing_env,
          actual_app_dir, node_file, source_nm, nm_before, copied,
          signing_vars, nm, called, pushed, owner_pushed, stop_in, builds,
          log_queue, log_text, log_file, log_calls, log_pc, owner_log_pc,
          poll_pc, children, output, server_js, scandir_order, server_path, path_pc>>

\* The state of the build pipeline, and the state of the log.
buildVars == <<platform, host_alive, is_building, process, build_button,
               stop_button, status, after_queue, owner_pc, pc, cmd, extra_env,
               line, result, electron_version, rebuild_success, success,
               signing_env, actual_app_dir, node_file, source_nm, nm_before,
               copied, signing_vars, nm, called, pushed, owner_pushed,
               stop_in, builds>>
logVars == <<log_queue, log_text, log_file, log_calls, log_pc, owner_log_pc,
             poll_pc>>
treeVars == <<children>>
cmdVars == <<output>>
pathVars == <<server_js, scandir_order, server_path, path_pc>>

ownerVars == <<is_building, build_button, stop_button, status, owner_pc,
               builds>>
localVars == <<electron_version, rebuild_success, success, signing_env>>
obsVars == <<actual_app_dir, node_file, source_nm, nm_before, copied,
             signing_vars>>
fsVars == <<obsVars, nm>>

----------------------------------------------------------------------------
\* The commands of the pipeline, in the order run_build issues them.
RebuildCmds == <<"rebuild1", "rebuild2", "rebuild3">>
\* Position of the stage of a command in run_build.
StageOf(c) ==
    CASE c = "npm_root" -> 2
      [] c = "npm_app" -> 3
      [] c \in {"rebuild1", "rebuild2", "rebuild3"} -> 4
      [] c = "pack_5a" -> 5
      [] c = "rebuild_5c" -> 6
      [] c = "nsis_5d" -> 7

\* A log entry: message and tag, as given to self.log.
E(m, t) == [msg |-> m, tag |-> t]

----------------------------------------------------------------------------
\* Output lines are sequences of characters; Glyph stands for the one
\* character U+2A2F that electron-builder prints in front of a failure.
Glyph == "GLYPH"
Whitespace == {" ", "\n"}

LowerChar(ch) ==
    CASE ch = "E" -> "e" [] ch = "R" -> "r" [] ch = "O" -> "o"
      [] ch = "W" -> "w" [] ch = "A" -> "a" [] ch = "N" -> "n"
      [] OTHER -> ch

Lower(s) == [i \in 1..Len(s) |-> LowerChar(s[i])]

Contains(s, sub) ==
    \E i \in 1..(Len(s) - Len(sub) + 1) : SubSeq(s, i, i + Len(sub) - 1) = sub

RECURSIVE RStrip(_)
RStrip(s) ==
    IF s # <<>> /\ s[Len(s)] \in Whitespace
    THEN RStrip(SubSeq(s, 1, Len(s) - 1))
    ELSE s

\* Classify with the test for a warning first.
ClassifyWarnFirst(text) ==
    IF Contains(Lower(text), <<"w", "a", "r", "n", "i", "n", "g">>)
       \/ Contains(Lower(text), <<"w", "a", "r", "n">>)
    THEN "warning"
    ELSE IF Contains(Lower(text), <<"e", "r", "r", "o", "r">>)
            \/ Contains(text, <<Glyph>>)
         THEN "error"
         ELSE "info"

\* The tag run_command gives a non-empty, stripped line.
Classify(text) ==
    IF Contains(Lower(text), <<"e", "r", "r", "o", "r">>)
       \/ Contains(text, <<Glyph>>)
    THEN "error"
    ELSE IF Contains(Lower(text), <<"w", "a", "r", "n", "i", "n", "g">>)
            \/ Contains(Lower(text), <<"w", "a", "r", "n">>)
         THEN "warning"
         ELSE "info"

\* The lines an external command may write (each ends with a newline).
Lines == { <<"\n">>,
           <<"o", "k", "\n">>,
           <<"W", "a", "r", "n", "\n">>,
           <<"W", "a", "r", "n", " ", "E", "R", "R", "O", "R", " ", "\n">>,
           <<Glyph, " ", "w", "a", "r", "n", "\n">> }

\* The value of line when no line has been read; a line that has been
\* read ends with its newline.
NoLine == <<>>

\* The entries one readline of run_command pushes: the line without its
\* trailing whitespace, with its tag; none for a blank line.
LineEntries(raw) ==
    LET text == RStrip(raw)
    IN  IF text # <<>>
        THEN {[msg |-> "output", tag |-> Classify(text), text |-> text]}
        ELSE {}

----------------------------------------------------------------------------
\* External processes.  A Popen object keeps describing its process after
\* the process has exited; reaped records that wait() has collected it.
NoProcess ==
    [cmd |-> None, env |-> {}, alive |-> FALSE, reaped |-> TRUE, rc |-> 0,
     buf |-> 0, todo |-> 0]

NewProcess(c, env, n) ==
    [cmd |-> c, env |-> env, alive |-> TRUE, reaped |-> FALSE, rc |-> 0,
     buf |-> 0, todo |-> n]

\* Killed without the test: a process that has already exited is taken to
\* have been terminated, and its exit code is replaced.
KilledAlways(p) ==
    [p EXCEPT !.alive = FALSE, !.rc = 1, !.todo = 0]

\* What a forced termination does to a process: it is gone with a non-zero
\* exit code and writes nothing more; what it wrote stays in the pipe.
Killed(p) ==
    IF p.alive THEN [p EXCEPT !.alive = FALSE, !.rc = 1, !.todo = 0] ELSE p

\* kill_process_tree on win32: taskkill /F /T ends a running process tree
\* and fails, ignored, for a process that has already exited.
\* kill_process_tree elsewhere: the pid still exists until wait() has reaped
\* it, so getpgid succeeds and the signal goes to the process group of the
\* command.  Popen is called without start_new_session, so that group is the
\* group of the builder itself.  For a reaped pid both calls raise and the
\* exceptions are swallowed.
KillsHost(p) == platform = "posix" /\ ~p.reaped

kill_process_tree(p) ==
    IF platform = "win32" THEN Killed(p)
    ELSE IF ~p.reaped THEN Killed(p) ELSE p

\* The processes a command spawns in turn.  A descendant is in the process
\* group of the command and goes on running when the command exits.
Kids == {"k1", "k2"}

\* What kill_process_tree(p.pid) does to the descendants of p.  taskkill /T
\* walks the tree below a running pid and finds nothing for a pid that has
\* exited.  killpg reaches the descendants through the group of the pid;
\* when getpgid raises because the pid is gone, the fallback os.kill(pid)
\* raises as well and no process is signalled.
kill_descendants(p, ch) ==
    IF (platform = "win32" /\ p.alive) \/ (platform = "posix" /\ ~p.reaped)
    THEN [k \in Kids |-> IF ch[k] = "running" THEN "dead" ELSE ch[k]]
    ELSE ch

\* The external command writes a line into the pipe.
ProcEmit ==
    /\ host_alive
    /\ process # NoProcess
    /\ process.alive /\ process.todo > 0 /\ process.buf < PipeCap
    /\ process' = [process EXCEPT !.buf = @ + 1, !.todo = @ - 1]
    /\ UNCHANGED <<logVars, treeVars, cmdVars, pathVars, line,
                   platform, host_alive, ownerVars, after_queue,
                   pc, cmd,
                   extra_env, result, localVars, fsVars, called, pushed,
                   owner_pushed, stop_in>>

\* The external command exits by itself, with exit code 0 or 1.
ProcExit ==
    /\ host_alive
    /\ process # NoProcess
    /\ process.alive /\ process.todo = 0
    /\ \E code \in {0, 1} :
          process' = [process EXCEPT !.alive = FALSE, !.rc = code]
    /\ UNCHANGED <<logVars, treeVars, cmdVars, pathVars, line,
                   platform, host_alive, ownerVars, after_queue,
                   pc, cmd,
                   extra_env, result, localVars, fsVars, called, pushed,
                   owner_pushed, stop_in>>

----------------------------------------------------------------------------
\* The signing fields of the window (signing_enabled_var, csc_link_var,
\* csc_password_var) when step 5 has not just read them.
NoSigningVars ==
    [read |-> FALSE, signing_enabled_var |-> FALSE, csc_link_var |-> <<>>,
     csc_password_var |-> <<>>]

Init ==
    /\ platform \in {"win32", "posix"}
    /\ host_alive = TRUE
    /\ is_building = FALSE
    /\ process = NoProcess
    /\ build_button = "normal"
    /\ stop_button = "disabled"
    /\ status = "ready"
    /\ after_queue = <<>>
    /\ owner_pc = "idle"
    /\ pc = "idle"
    /\ cmd = None
    /\ extra_env = {}
    /\ line = NoLine
    /\ result = FALSE
    /\ electron_version = FALSE
    /\ rebuild_success = FALSE
    /\ success = FALSE
    /\ signing_env = {}
    /\ actual_app_dir = "unset"
    /\ node_file = "unchecked"
    /\ source_nm = "unknown"
    /\ nm_before = "unknown"
    /\ nm = "unknown"
    /\ copied = "no"
    /\ signing_vars = NoSigningVars
    /\ called = <<>>
    /\ pushed = {}
    /\ owner_pushed = {}
    /\ stop_in = None
    /\ builds = 0
    /\ log_queue = <<>>
    /\ log_text = <<>>
    /\ log_file = [set |-> FALSE, lines |-> <<>>]
    /\ log_calls = <<>>
    /\ log_pc = [at |-> "idle"]
    /\ owner_log_pc = [at |-> "idle"]
    /\ poll_pc = "idle"
    /\ children = [k \in Kids |-> "unborn"]
    /\ output = <<>>
    /\ server_js = {}
    /\ scandir_order = <<>>
    /\ server_path = <<>>
    /\ path_pc = "unpacked"

----------------------------------------------------------------------------
\* Main thread.

\* start_build run whatever the state of the build button is.
start_build_any_time ==
    /\ host_alive
    /\ owner_pc = "idle"
    /\ builds < MaxBuilds
    /\ ~is_building
    /\ is_building' = TRUE
    /\ build_button' = "disabled"
    /\ stop_button' = "normal"
    /\ status' = "running"
    /\ owner_pushed' = {E("build_started", "step")}
    /\ pushed' = {}
    /\ called' = <<>>
    /\ stop_in' = None
    /\ pc' = "run_build"
    /\ builds' = builds + 1
    /\ UNCHANGED <<logVars, treeVars, cmdVars, pathVars, line,
                   platform, host_alive, process, after_queue,
                   owner_pc, cmd,
                   extra_env, result, localVars, fsVars>>

\* start_build that does not disable the build button: only the test of
\* is_building stands between a click and a new worker thread.
start_build_button_enabled ==
    /\ host_alive
    /\ owner_pc = "idle"
    /\ build_button = "normal"
    /\ builds < MaxBuilds
    /\ ~is_building
    /\ is_building' = TRUE
    /\ build_button' = "normal"
    /\ stop_button' = "normal"
    /\ status' = "running"
    /\ owner_pushed' = {E("build_started", "step")}
    /\ pushed' = {}
    /\ called' = <<>>
    /\ stop_in' = None
    /\ pc' = "run_build"
    /\ builds' = builds + 1
    /\ UNCHANGED <<logVars, treeVars, cmdVars, pathVars, line,
                   platform, host_alive, process, after_queue,
                   owner_pc, cmd,
                   extra_env, result, localVars, fsVars>>

\* start_build, the command of the build button.
start_build ==
    /\ host_alive
    /\ owner_pc = "idle"
    /\ build_button = "normal"
    /\ builds < MaxBuilds
    /\ ~is_building
    /\ is_building' = TRUE
    /\ build_button' = "disabled"
    /\ stop_button' = "normal"
    /\ status' = "running"
    /\ owner_pushed' = {E("build_started", "step")}
    /\ pushed' = {}
    /\ called' = <<>>
    /\ stop_in' = None
    /\ pc' = "run_build"
    /\ builds' = builds + 1
    /\ UNCHANGED <<logVars, treeVars, cmdVars, pathVars, line,
                   platform, host_alive, process, after_queue,
                   owner_pc, cmd,
                   extra_env, result, localVars, fsVars>>

\* stop_build, the command of the stop button, up to the log call: the
\* process tree of self.process is terminated if a handle is set.
stop_build_kill ==
    /\ host_alive
    /\ owner_pc = "idle"
    /\ stop_button = "normal"
    /\ owner_pc' = "stop_flag"
    /\ IF process # NoProcess
       THEN /\ process' = kill_process_tree(process)
            /\ children' = kill_descendants(process, children)
            /\ host_alive' = ~KillsHost(process)
            /\ owner_pushed' = IF KillsHost(process) THEN owner_pushed
                               ELSE {E("build_aborted", "warning")}
       ELSE UNCHANGED <<process, children, host_alive, owner_pushed>>
    /\ stop_in' = IF pc = "read" /\ stop_in = None
                  THEN (IF StageOf(cmd) = 4 THEN "rebuild" ELSE "other")
                  ELSE stop_in
    /\ UNCHANGED <<logVars, cmdVars, pathVars, line, platform, is_building, build_button,
                   stop_button, status, builds, after_queue, pc, cmd,
                   extra_env, result, localVars, fsVars, called, pushed>>

\* stop_build, its last statement: self.is_building = False.
stop_build_flag ==
    /\ host_alive
    /\ owner_pc = "stop_flag"
    /\ is_building' = FALSE
    /\ owner_pc' = "idle"
    /\ UNCHANGED <<logVars, treeVars, cmdVars, pathVars, line,
                   platform, host_alive, process, build_button,
                   stop_button,
                   status, builds, after_queue, pc, cmd, extra_env, result,
                   localVars, fsVars, called, pushed, owner_pushed,
                   stop_in>>

\* build_finished.
build_finished ==
    /\ is_building' = FALSE
    /\ build_button' = "normal"
    /\ stop_button' = "disabled"
    /\ process' = NoProcess
    /\ UNCHANGED status

\* set_status as scheduled by run_build.
set_status(s) ==
    /\ status' = s
    /\ UNCHANGED <<is_building, build_button, stop_button, process>>

\* The main loop runs the oldest callback scheduled with root.after(0, ...).
RunAfter ==
    /\ host_alive
    /\ owner_pc = "idle"
    /\ after_queue # <<>>
    /\ after_queue' = Tail(after_queue)
    /\ CASE Head(after_queue) = "build_finished" -> build_finished
         [] Head(after_queue) = "showinfo" ->
                UNCHANGED <<status, is_building, build_button, stop_button,
                            process>>
         [] OTHER -> set_status(Head(after_queue))
    /\ UNCHANGED <<logVars, treeVars, cmdVars, pathVars, line,
                   platform, host_alive, owner_pc, builds, pc, cmd,
                   extra_env,
                   result, localVars, fsVars, called, pushed, owner_pushed,
                   stop_in>>

----------------------------------------------------------------------------
\* Worker thread: run_build and run_command.

ioFrame == <<logVars, treeVars, platform, host_alive, ownerVars,
             owner_pushed, stop_in>>
workerFrame == <<ioFrame, line, cmdVars, pathVars>>

\* actual_app_dir, node_file, source_nm, nm_before and copied hold what the
\* code between two run_command calls found and did; run_build does not
\* use them after that, and they are cleared when the next command is
\* announced and when run_build ends.
NoObservation ==
    /\ actual_app_dir' = "unset"
    /\ node_file' = "unchecked"
    /\ source_nm' = "unknown"
    /\ nm_before' = "unknown"
    /\ copied' = "no"
    /\ signing_vars' = NoSigningVars

\* The finally clause of run_build: build_finished is scheduled and the
\* thread ends; the locals of run_build end with it.
Finish(entries, callbacks) ==
    /\ pushed' = entries
    /\ after_queue' = after_queue \o callbacks \o <<"build_finished">>
    /\ pc' = "done"
    /\ cmd' = None
    /\ extra_env' = {}
    /\ result' = FALSE
    /\ electron_version' = FALSE
    /\ rebuild_success' = FALSE
    /\ success' = FALSE
    /\ signing_env' = {}
    /\ NoObservation

\* except Exception in run_build.
Except(entries) ==
    Finish(entries \cup {E("exception", "error")}, <<"error">>)

\* The else branch of "if success" at the end of run_build.
BuildFailed(entries) ==
    Finish(entries \cup {E("build_failed", "error")}, <<"failed">>)

\* Step 6 and the success report.  The final search of the packaged tree
\* finds a dotenv directory with lib, or only some node_modules, or nothing.
BuildSucceeded(entries) ==
    \/ \E v \in {"dotenv", "nm_only", "none"} :
          /\ nm = "complete" => v # "none"
          /\ nm = "incomplete" => v # "none"
          /\ Finish(entries \cup {E("step6", "step")}
                      \cup (CASE v = "dotenv" -> {E("verified", "success")}
                              [] v = "nm_only" -> {E("no_dotenv", "warning")}
                              [] v = "none" -> {E("no_node_modules", "error")})
                      \cup {E("build_success", "success")},
                    <<"success", "showinfo">>)
    \/ Except(entries \cup {E("step6", "step")})

\* run_build up to the first run_command call: configuration, removal of
\* the old dist directory.  os.chdir may raise.
RunBuildStart ==
    /\ host_alive
    /\ pc = "run_build"
    /\ \/ /\ pushed' = {E("step0", "step"), E("step1", "step"),
                        E("step2", "step")}
          /\ nm' = "absent"
          /\ cmd' = "npm_root"
          /\ extra_env' = {}
          /\ pc' = "call"
          /\ UNCHANGED <<after_queue, result, localVars, obsVars>>
       \/ /\ Except({})
          /\ UNCHANGED nm
    /\ UNCHANGED <<workerFrame, process, called>>

\* run_command: the announcement of the command.
RunCommandAnnounce ==
    /\ host_alive
    /\ pc = "call"
    /\ pushed' = {[msg |-> "exec", tag |-> "info", cmd |-> cmd]}
    /\ called' = Append(called, cmd)
    /\ pc' = "popen"
    /\ NoObservation
    /\ UNCHANGED <<workerFrame, process, after_queue, cmd, extra_env, result,
                   localVars, nm>>

\* RunCommandPopen without the except clause of run_command: the exception
\* of Popen reaches the handler of run_build.
RunCommandPopenRaises ==
    /\ host_alive
    /\ pc = "popen"
    /\ \/ /\ \E n \in 0..MaxLines : process' = NewProcess(cmd, extra_env, n)
          /\ pc' = "read"
          /\ pushed' = {}
          /\ UNCHANGED <<result, after_queue, cmd, extra_env, localVars,
                         fsVars>>
       \/ /\ Except({})
          /\ UNCHANGED <<process, nm>>
    /\ UNCHANGED <<workerFrame, called>>

\* run_command: subprocess.Popen.  It returns a handle, stored in
\* self.process, or raises; the exception is logged and False is returned.
RunCommandPopen ==
    /\ host_alive
    /\ pc = "popen"
    /\ \/ /\ \E n \in 0..MaxLines : process' = NewProcess(cmd, extra_env, n)
          /\ pc' = "read"
          /\ pushed' = {}
          /\ UNCHANGED result
       \/ /\ pushed' = {E("spawn_failed", "error")}
          /\ result' = FALSE
          /\ pc' = "ret"
          /\ UNCHANGED process
    /\ UNCHANGED <<workerFrame, after_queue, cmd, extra_env, localVars,
                   fsVars, called>>

\* run_command: one readline that returns a line.  The flag is checked
\* first; the line is tagged and logged unless it is blank.
ReadLine ==
    /\ host_alive
    /\ pc = "read"
    /\ process.buf > 0
    /\ process' = [process EXCEPT !.buf = @ - 1]
    /\ IF ~is_building
       THEN /\ pc' = "wait"
            /\ line' = NoLine
            /\ pushed' = {}
       ELSE /\ \E raw \in Lines :
                  /\ line' = raw
                  /\ pushed' = LineEntries(raw)
            /\ UNCHANGED pc
    /\ UNCHANGED <<ioFrame, after_queue, cmd, extra_env, result,
                   localVars, fsVars, called>>

RunCommandReadLine ==
    /\ ReadLine
    /\ UNCHANGED <<cmdVars, pathVars>>

\* run_command: readline returns '' because the stream is closed.
RunCommandReadEOF ==
    /\ host_alive
    /\ pc = "read"
    /\ process.buf = 0 /\ ~process.alive
    /\ pc' = "wait"
    /\ line' = NoLine
    /\ pushed' = {}
    /\ UNCHANGED <<ioFrame, cmdVars, pathVars, process, after_queue, cmd, extra_env,
                   result,
                   localVars, fsVars, called>>

\* RunCommandWait in which a line tagged error makes the command fail.
RunCommandWaitErrorFails ==
    /\ host_alive
    /\ pc = "wait"
    /\ process # NoProcess
    /\ ~process.alive
    /\ process' = [process EXCEPT !.reaped = TRUE]
    /\ result' = (process.rc = 0
                    /\ \A i \in 1..Len(output) : output[i] # "error")
    /\ pc' = "ret"
    /\ pushed' = {}
    /\ UNCHANGED <<workerFrame, after_queue, cmd, extra_env, localVars,
                   fsVars, called>>

\* run_command: self.process.wait() and the return value.
RunCommandWait ==
    /\ host_alive
    /\ pc = "wait"
    /\ process # NoProcess
    /\ ~process.alive
    /\ process' = [process EXCEPT !.reaped = TRUE]
    /\ result' = (process.rc = 0)
    /\ pc' = "ret"
    /\ pushed' = {}
    /\ UNCHANGED <<workerFrame, after_queue, cmd, extra_env, localVars,
                   fsVars, called>>

----------------------------------------------------------------------------
\* run_build between two run_command calls.

retFrame == <<workerFrame, process, called>>

\* Next call of run_command with the given arguments.
Call(c, env) ==
    /\ cmd' = c
    /\ extra_env' = env
    /\ pc' = "call"
    /\ UNCHANGED <<after_queue, result>>

\* Start of step 4: "npx electron --version" is run with subprocess.run; it
\* yields the version, or exits non-zero, or raises (logged as a warning).
\* Then method 1 of the rebuild is called.
BeginRebuild(entries) ==
    \E ev \in {"known", "unknown", "raised"} :
        /\ electron_version' = (ev = "known")
        /\ pushed' = entries \cup {E("step4", "step")}
                       \cup (CASE ev = "known" -> {E("electron_version", "info")}
                               [] ev = "unknown" -> {}
                               [] ev = "raised" -> {E("no_electron_version", "warning")})
                       \cup {E("method1", "info")}
        /\ rebuild_success' = FALSE
        /\ Call("rebuild1", {})
        /\ UNCHANGED <<success, signing_env, fsVars>>

\* After "npm install" in the project root; its return value is not used.
RetNpmRoot ==
    /\ host_alive
    /\ pc = "ret" /\ cmd = "npm_root"
    /\ \/ /\ pushed' = {E("step3", "step")}
          /\ Call("npm_app", {})
          /\ UNCHANGED <<localVars, fsVars>>
       \/ BeginRebuild({E("step3_skipped", "info")})
    /\ UNCHANGED retFrame

\* After "npm install" in app/; its return value is not used.
RetNpmApp ==
    /\ host_alive
    /\ pc = "ret" /\ cmd = "npm_app"
    /\ BeginRebuild({})
    /\ UNCHANGED retFrame

\* Strings of the signing fields.
RECURSIVE LStrip(_)
LStrip(s) ==
    IF s # <<>> /\ s[1] \in Whitespace THEN LStrip(Tail(s)) ELSE s

Strip(s) == RStrip(LStrip(s))

FieldValues == {<<>>, <<" ">>, <<"x">>}

\* SigningEnv with one test per variable: each non-empty value is
\* injected by itself.
SigningEnvPartial(enabled, link_field, password_field) ==
    LET csc_link == Strip(link_field)
        csc_password == password_field
    IN  IF enabled
        THEN (IF csc_link # <<>> THEN {"CSC_LINK"} ELSE {})
               \cup (IF csc_password # <<>> THEN {"CSC_KEY_PASSWORD"} ELSE {})
        ELSE {}

\* The signing environment run_build prepares from the signing fields.
SigningEnv(enabled, link_field, password_field) ==
    LET csc_link == Strip(link_field)
        csc_password == password_field
    IN  IF enabled /\ csc_link # <<>> /\ csc_password # <<>>
        THEN {"CSC_LINK", "CSC_KEY_PASSWORD"}
        ELSE {}

SigningEntries(enabled, link_field, password_field) ==
    LET csc_link == Strip(link_field)
        csc_password == password_field
    IN  IF ~enabled THEN {}
        ELSE IF csc_link = <<>> /\ csc_password = <<>>
             THEN {E("signing_store", "success")}
             ELSE IF csc_link # <<>> /\ csc_password # <<>>
                  THEN {E("signing_pfx", "success")}
                  ELSE {E("signing_incomplete", "warning")}

\* NodeEntries without the check: every file counts as updated.
NodeEntriesUnchecked(state) ==
    {E("node_updated", "success")}

\* The timestamp check of better_sqlite3.node: it only logs.
NodeEntries(state) ==
    CASE state = "fresh" -> {E("node_updated", "success")}
      [] state = "stale" -> {E("node_old", "warning")}
      [] state = "missing" -> {E("node_missing", "warning")}

\* The rebuild stage succeeded: the timestamp check, step 5 with the
\* signing environment, and the call of the packaging command 5a.
RebuildDone ==
    \E state \in {"fresh", "stale", "missing"}, enabled \in BOOLEAN,
       link_field \in FieldValues, password_field \in FieldValues :
        /\ node_file' = state
        /\ signing_vars' = [read |-> TRUE, signing_enabled_var |-> enabled,
                            csc_link_var |-> link_field,
                            csc_password_var |-> password_field]
        /\ signing_env' = SigningEnv(enabled, link_field, password_field)
        /\ pushed' = {E("rebuilt", "success")}
                       \cup NodeEntries(state) \cup {E("step5", "step")}
                       \cup SigningEntries(enabled, link_field, password_field)
                       \cup {E("5a", "info")}
        /\ Call("pack_5a", SigningEnv(enabled, link_field, password_field))
        /\ UNCHANGED <<electron_version, success, actual_app_dir, source_nm,
                       nm_before, copied, nm>>

\* RebuildFailed without the return statement: run_build goes on to step 5.
RebuildFailedNoReturn ==
    /\ pushed' = {E("rebuild_critical", "error"),
                  E("app_will_not_start", "error"),
                  E("try_manually", "error"), E("step5", "step"),
                  E("5a", "info")}
    /\ Call("pack_5a", {})
    /\ NoObservation
    /\ UNCHANGED localVars

\* The rebuild stage failed: three error entries and return.
RebuildFailed ==
    Finish({E("rebuild_critical", "error"), E("app_will_not_start", "error"),
            E("try_manually", "error")}, <<>>)

\* RetRebuild with method 2 outside the test of rebuild_success: it is
\* called whatever method 1 returned.
RetRebuildUnguarded ==
    /\ host_alive
    /\ pc = "ret" /\ cmd \in {"rebuild1", "rebuild2", "rebuild3"}
    /\ IF cmd = "rebuild1"
       THEN /\ pushed' = {E("method2", "info")}
            /\ Call("rebuild2", {})
            /\ rebuild_success' = result
            /\ UNCHANGED <<electron_version, success, signing_env, fsVars>>
       ELSE IF result
            THEN /\ rebuild_success' = TRUE
                 /\ RebuildDone
            ELSE IF cmd = "rebuild2"
                 THEN /\ pushed' = {E("method3", "info")}
                      /\ Call("rebuild3", {})
                      /\ rebuild_success' = FALSE
                      /\ UNCHANGED <<electron_version, success, signing_env,
                                     fsVars>>
                 ELSE /\ RebuildFailed
                      /\ UNCHANGED nm
    /\ UNCHANGED retFrame

\* After a rebuild attempt: the next method if it failed and one is left.
RetRebuild ==
    /\ host_alive
    /\ pc = "ret" /\ cmd \in {"rebuild1", "rebuild2", "rebuild3"}
    /\ IF result
       THEN /\ rebuild_success' = TRUE
            /\ RebuildDone
       ELSE CASE cmd = "rebuild1" ->
                    /\ pushed' = {E("method2", "info")}
                    /\ Call("rebuild2", {})
                    /\ rebuild_success' = FALSE
                    /\ UNCHANGED <<electron_version, success, signing_env,
                                   fsVars>>
              [] cmd = "rebuild2" ->
                    /\ pushed' = {E("method3", "info")}
                    /\ Call("rebuild3", {})
                    /\ rebuild_success' = FALSE
                    /\ UNCHANGED <<electron_version, success, signing_env,
                                   fsVars>>
              [] cmd = "rebuild3" ->
                    /\ RebuildFailed
                    /\ UNCHANGED nm
    /\ UNCHANGED retFrame

----------------------------------------------------------------------------
\* Step 5b: the packaged dependency directory.

NmStates == {"absent", "incomplete", "complete"}

\* dotenv_exists and the condition of the repair copy.
isComplete(dir) == dir = "complete"

\* NeedsCopy without the test of the marker dependency.
NeedsCopyOnlyIfAbsent(src, dir) ==
    src # "absent" /\ dir = "absent"

NeedsCopy(src, dir) ==
    src # "absent" /\ (dir = "absent" \/ ~isComplete(dir))

\* Entries of 5b that do not depend on the copy.
CheckEntries(found, src, dir) ==
    {E("5b", "info")}
      \cup (IF found THEN {E("app_dir_found", "info")}
            ELSE {E("app_dir_not_found", "warning")})
      \cup (IF NeedsCopy(src, dir) THEN {E("copying", "warning")}
            ELSE IF ~found THEN {}
            ELSE IF dir # "absent" /\ isComplete(dir)
                 THEN {E("nm_complete", "success")}
                 ELSE {E("no_source_nm", "warning")})

\* CallRebuildPacked with the signing environment given to 5c as well.
CallRebuildPackedSigned(entries) ==
    \E detected \in BOOLEAN :
        /\ electron_version' = (electron_version \/ detected)
        /\ pushed' = entries \cup {E("5c", "info")}
                       \cup (IF electron_version \/ detected
                             THEN {E("rebuild_version", "info")} ELSE {})
        /\ cmd' = "rebuild_5c"
        /\ extra_env' = signing_env
        /\ pc' = "call"
        /\ UNCHANGED <<after_queue, result>>

\* Step 5c, entered when the application directory was found: the Electron
\* version is asked for again if it is not known, then the rebuild inside
\* the packaged directory is called.
CallRebuildPacked(entries) ==
    \E detected \in BOOLEAN :
        /\ electron_version' = (electron_version \/ detected)
        /\ pushed' = entries \cup {E("5c", "info")}
                       \cup (IF electron_version \/ detected
                             THEN {E("rebuild_version", "info")} ELSE {})
        /\ Call("rebuild_5c", {})

\* Step 5d: the installer is generated from the packaged directory.
CallNsis(entries) ==
    /\ pushed' = entries \cup {E("5d", "info")}
    /\ Call("nsis_5d", signing_env)
    /\ UNCHANGED electron_version

\* CopyFailed without "success = False": the failed copy is logged and
\* run_build goes on to 5c or 5d.
CopyFailedIgnored(found, src, dir) ==
    /\ nm' \in NmStates
    /\ copied' = "no"
    /\ source_nm' = src
    /\ nm_before' = dir
    /\ UNCHANGED <<node_file, signing_vars>>
    /\ success' = TRUE
    /\ actual_app_dir' = IF found THEN "found" ELSE "notfound"
    /\ UNCHANGED <<rebuild_success, signing_env>>
    /\ IF found
       THEN CallRebuildPacked(CheckEntries(found, src, dir)
                                \cup {E("copy_failed", "error")})
       ELSE CallNsis(CheckEntries(found, src, dir)
                       \cup {E("copy_failed", "error")})

\* The repair copy raises (rmtree may already have removed the directory):
\* the exception is caught and logged, success becomes False, so 5c and 5d
\* are skipped and the failure branch at the end of run_build is taken.
CopyFailed(found, src, dir) ==
    /\ nm' \in NmStates
    /\ BuildFailed(CheckEntries(found, src, dir)
                     \cup {E("copy_failed", "error")})

\* After the packaging command 5a.
RetPack ==
    /\ host_alive
    /\ pc = "ret" /\ cmd = "pack_5a"
    /\ IF ~result
       THEN /\ BuildFailed({})
            /\ UNCHANGED nm
       ELSE \/ /\ Except({E("5b", "info")})
               /\ UNCHANGED nm
            \/ \E found \in BOOLEAN, src \in NmStates, dir \in NmStates :
                  /\ IF NeedsCopy(src, dir)
                     THEN \/ /\ copied' = "ok"
                             /\ source_nm' = src
                             /\ nm_before' = dir
                             /\ UNCHANGED <<node_file, signing_vars>>
                             /\ nm' = src
                             /\ success' = TRUE
                             /\ actual_app_dir' = IF found THEN "found"
                                                  ELSE "notfound"
                             /\ UNCHANGED <<rebuild_success, signing_env>>
                             /\ IF found
                                THEN CallRebuildPacked(
                                       CheckEntries(found, src, dir)
                                         \cup {E("copied", "success")})
                                ELSE CallNsis(
                                       CheckEntries(found, src, dir)
                                         \cup {E("copied", "success")})
                          \/ CopyFailed(found, src, dir)
                     ELSE /\ copied' = "no"
                          /\ source_nm' = src
                          /\ nm_before' = dir
                          /\ UNCHANGED <<node_file, signing_vars>>
                          /\ nm' = dir
                          /\ success' = TRUE
                          /\ actual_app_dir' = IF found THEN "found"
                                               ELSE "notfound"
                          /\ UNCHANGED <<rebuild_success, signing_env>>
                          /\ IF found
                             THEN CallRebuildPacked(
                                    CheckEntries(found, src, dir))
                             ELSE CallNsis(CheckEntries(found, src, dir))
    /\ UNCHANGED retFrame

\* RetRebuildPacked that does not look at the return value.
RetRebuildPackedIgnored ==
    /\ host_alive
    /\ pc = "ret" /\ cmd = "rebuild_5c"
    /\ CallNsis({E("5c_rebuilt", "success")})
    /\ UNCHANGED <<rebuild_success, success, signing_env, fsVars>>
    /\ UNCHANGED retFrame

\* After the rebuild inside the packaged directory (5c): its failure is
\* logged as two warnings and the installer is generated all the same.
RetRebuildPacked ==
    /\ host_alive
    /\ pc = "ret" /\ cmd = "rebuild_5c"
    /\ IF result
       THEN CallNsis({E("5c_rebuilt", "success")})
       ELSE CallNsis({E("5c_failed", "warning"),
                      E("5c_version_risk", "warning")})
    /\ UNCHANGED <<rebuild_success, success, signing_env, fsVars>>
    /\ UNCHANGED retFrame

\* After the installer generation (5d).
RetNsis ==
    /\ host_alive
    /\ pc = "ret" /\ cmd = "nsis_5d"
    /\ IF result THEN BuildSucceeded({}) ELSE BuildFailed({})
    /\ UNCHANGED nm
    /\ UNCHANGED retFrame

----------------------------------------------------------------------------
Next ==
    \/ start_build
    \/ stop_build_kill
    \/ stop_build_flag
    \/ RunAfter
    \/ ProcEmit
    \/ ProcExit
    \/ RunBuildStart
    \/ RunCommandAnnounce
    \/ RunCommandPopen
    \/ RunCommandReadLine
    \/ RunCommandReadEOF
    \/ RunCommandWait
    \/ RetNpmRoot
    \/ RetNpmApp
    \/ RetRebuild
    \/ RetPack
    \/ RetRebuildPacked
    \/ RetNsis

Spec == Init /\ [][Next]_vars

\* The steps of the worker thread.
Worker ==
    \/ RunBuildStart
    \/ RunCommandAnnounce
    \/ RunCommandPopen
    \/ RunCommandReadLine
    \/ RunCommandReadEOF
    \/ RunCommandWait
    \/ RetNpmRoot
    \/ RetNpmApp
    \/ RetRebuild
    \/ RetPack
    \/ RetRebuildPacked
    \/ RetNsis

\* The build pipeline with its scheduling: the worker thread runs while it
\* can take a step, an external command writes while the pipe has room and
\* exits when it has nothing more to write, a stop_build that has begun
\* runs to its end, and the main loop runs the callbacks scheduled with
\* root.after.  Nothing obliges the user to press a button.
FairSpec ==
    /\ Spec
    /\ WF_vars(Worker)
    /\ WF_vars(ProcEmit)
    /\ WF_vars(ProcExit)
    /\ WF_vars(stop_build_flag)
    /\ WF_vars(RunAfter)

----------------------------------------------------------------------------
\* The log: log() called by the worker thread and by the handlers of the
\* main thread, and process_log_queue run by the main loop every 50 ms.  process_log_queue is cut at each
\* get_nowait, log() between the put and the append to the log file, so
\* that the producer runs between any two steps of the consumer.

\* The entries the producer may log.
LogEntries == {E("a", "info"), E("b", "error")}

\* start_build up to the creation of the log file name: self.log_file is
\* set, the file is created by the first append.  start_build is a handler
\* of the main thread.
OpenLogFile ==
    /\ ~log_file.set
    /\ owner_log_pc.at = "idle"
    /\ poll_pc = "idle"
    /\ log_file' = [log_file EXCEPT !.set = TRUE]
    /\ UNCHANGED <<buildVars, treeVars, cmdVars, pathVars, owner_log_pc,
                   log_queue, log_text, log_calls, log_pc, poll_pc>>

\* log(): self.log_queue.put((message, tag)).
LogPut ==
    /\ log_pc.at = "idle"
    /\ Len(log_calls) < MaxLog
    /\ \E e \in LogEntries :
          /\ log_queue' = Append(log_queue, e)
          /\ log_calls' = Append(log_calls, e)
          /\ log_pc' = [at |-> "file", entry |-> e]
    /\ UNCHANGED <<buildVars, treeVars, cmdVars, pathVars, owner_log_pc,
                   log_text, log_file, poll_pc>>

\* log(): the line is appended to the log file if one is set; an error of
\* the file operation is swallowed.
LogAppend ==
    /\ log_pc.at = "file"
    /\ log_pc' = [at |-> "idle"]
    /\ IF log_file.set
       THEN \/ log_file' = [log_file EXCEPT
                               !.lines = Append(@, log_pc.entry.msg)]
            \/ UNCHANGED log_file
       ELSE UNCHANGED log_file
    /\ UNCHANGED <<buildVars, treeVars, cmdVars, pathVars, owner_log_pc,
                   log_queue, log_text, log_calls,
                   poll_pc>>

\* write_to_log with the insertion at the top of the widget.
write_to_log_top(text, entry) == <<entry>> \o text

\* _write_to_log: the entry is inserted at the end of the widget.
write_to_log(text, entry) == Append(text, entry)

\* log() called on the main thread (start_build, stop_build): the put.  A
\* handler of the main thread does not run inside process_log_queue.
OwnerLogPut ==
    /\ owner_log_pc.at = "idle"
    /\ poll_pc = "idle"
    /\ Len(log_calls) < MaxLog
    /\ \E e \in LogEntries :
          /\ log_queue' = Append(log_queue, e)
          /\ log_calls' = Append(log_calls, e)
          /\ owner_log_pc' = [at |-> "file", entry |-> e]
    /\ UNCHANGED <<buildVars, treeVars, cmdVars, pathVars, log_text, log_file,
                   log_pc, poll_pc>>

\* log() called on the main thread: the append to the log file.
OwnerLogAppend ==
    /\ owner_log_pc.at = "file"
    /\ owner_log_pc' = [at |-> "idle"]
    /\ IF log_file.set
       THEN \/ log_file' = [log_file EXCEPT
                               !.lines = Append(@, owner_log_pc.entry.msg)]
            \/ UNCHANGED log_file
       ELSE UNCHANGED log_file
    /\ UNCHANGED <<buildVars, treeVars, cmdVars, pathVars, log_queue, log_text,
                   log_calls, log_pc, poll_pc>>

\* process_log_queue is run by the timer, between two handlers of the
\* main thread.
ProcessLogQueueStart ==
    /\ poll_pc = "idle"
    /\ owner_log_pc.at = "idle"
    /\ poll_pc' = "loop"
    /\ UNCHANGED <<buildVars, treeVars, cmdVars, pathVars, owner_log_pc,
                   log_queue, log_text, log_file,
                   log_calls, log_pc>>

\* process_log_queue: get_nowait returns the oldest pair, which is written.
ProcessLogQueueGet ==
    /\ poll_pc = "loop"
    /\ log_queue # <<>>
    /\ log_text' = write_to_log(log_text, Head(log_queue))
    /\ log_queue' = Tail(log_queue)
    /\ UNCHANGED <<buildVars, treeVars, cmdVars, pathVars, owner_log_pc,
                   log_file, log_calls, log_pc, poll_pc>>

\* process_log_queue: get_nowait raises queue.Empty; the loop ends and the
\* next run is scheduled.
ProcessLogQueueEmpty ==
    /\ poll_pc = "loop"
    /\ log_queue = <<>>
    /\ poll_pc' = "idle"
    /\ UNCHANGED <<buildVars, treeVars, cmdVars, pathVars, owner_log_pc,
                   log_queue, log_text, log_file,
                   log_calls, log_pc>>

LogNext ==
    \/ OpenLogFile
    \/ LogPut
    \/ LogAppend
    \/ OwnerLogPut
    \/ OwnerLogAppend
    \/ ProcessLogQueueStart
    \/ ProcessLogQueueGet
    \/ ProcessLogQueueEmpty

LogSpec == Init /\ [][LogNext]_vars

----------------------------------------------------------------------------
\* Termination of a command and of the processes it has spawned.  The
\* worker of a started build is reduced to the command it runs: Popen, the
\* exit of the command, wait().  stop_build is the handler of the build
\* pipeline; cleanup_processes is run by on_close and again, as the atexit
\* handler, when the interpreter exits after root.destroy().

treeFrame == <<logVars, cmdVars, pathVars, line, platform, is_building, build_button,
               stop_button, status, builds, after_queue, pc, cmd, extra_env, result,
               localVars, fsVars, called, pushed, owner_pushed, stop_in>>

\* run_command spawns the command.
TreePopen ==
    /\ host_alive /\ owner_pc # "exited"
    /\ pc = "run_build"
    /\ process = NoProcess
    /\ process' = NewProcess("pack_5a", {}, 0)
    /\ UNCHANGED <<treeFrame, host_alive, owner_pc, children>>

\* The command spawns a process of its own.
ChildSpawn ==
    /\ process # NoProcess /\ process.alive
    /\ \E k \in Kids :
          /\ children[k] = "unborn"
          /\ children' = [children EXCEPT ![k] = "running"]
    /\ UNCHANGED <<treeFrame, host_alive, owner_pc, process>>

\* A descendant exits by itself.
ChildExit ==
    /\ \E k \in Kids :
          /\ children[k] = "running"
          /\ children' = [children EXCEPT ![k] = "dead"]
    /\ UNCHANGED <<treeFrame, host_alive, owner_pc, process>>

\* run_command: self.process.wait() collects the command that has exited.
TreeWait ==
    /\ host_alive /\ owner_pc # "exited"
    /\ process # NoProcess /\ ~process.alive /\ ~process.reaped
    /\ process' = [process EXCEPT !.reaped = TRUE]
    /\ UNCHANGED <<treeFrame, host_alive, owner_pc, children>>

\* cleanup_processes: the process tree of self.process is terminated if a
\* handle is set; every exception is swallowed.
cleanup_processes ==
    IF process # NoProcess
    THEN /\ process' = kill_process_tree(process)
         /\ children' = kill_descendants(process, children)
         /\ host_alive' = ~KillsHost(process)
    ELSE UNCHANGED <<process, children, host_alive>>

\* on_close, the handler of the window's close button: while a build is
\* running the user is asked and may decline; otherwise cleanup_processes
\* and root.destroy(), which ends the main loop.
on_close ==
    /\ host_alive
    /\ owner_pc = "idle"
    /\ \/ /\ cleanup_processes
          /\ owner_pc' = "atexit"
       \/ /\ is_building
          /\ UNCHANGED <<process, children, host_alive, owner_pc>>
    /\ UNCHANGED treeFrame

\* The interpreter exits: the atexit handler runs cleanup_processes again.
AtExit ==
    /\ host_alive
    /\ owner_pc = "atexit"
    /\ cleanup_processes
    /\ owner_pc' = "exited"
    /\ UNCHANGED treeFrame

KillNext ==
    \/ start_build
    \/ stop_build_kill
    \/ stop_build_flag
    \/ on_close
    \/ AtExit
    \/ TreePopen
    \/ ChildSpawn
    \/ ChildExit
    \/ ProcExit
    \/ TreeWait

KillSpec == Init /\ [][KillNext]_vars

----------------------------------------------------------------------------
\* One run_command call with the tags of its output kept: the first command
\* of a build from its announcement to its return value, with the external
\* command and stop_build running beside it.

\* The readline of run_command; output records the tag of the line logged.
RunCommandReadLineLogged ==
    /\ ReadLine
    /\ output' = IF pushed' = {} THEN output
                 ELSE Append(output, (CHOOSE e \in pushed' : TRUE).tag)
    /\ UNCHANGED pathVars

CmdNext ==
    \/ start_build
    \/ stop_build_kill
    \/ stop_build_flag
    \/ RunBuildStart
    \/ RunCommandAnnounce
    \/ RunCommandPopen
    \/ ProcEmit
    \/ ProcExit
    \/ RunCommandReadLineLogged
    \/ RunCommandReadEOF
    \/ RunCommandWait

CmdSpec == Init /\ [][CmdNext]_vars

----------------------------------------------------------------------------
\* Step 5b, the search for the application directory.  A path is the
\* sequence of its components below win-unpacked/resources.

\* The two directories searched, in the order of the for statement.
Bases == <<"app", "app.asar.unpacked">>
SubDirs == {"app", "node_modules"}
DirsOf(base) == {<<base>>} \cup {<<base, d>> : d \in SubDirs}
AllDirs == DirsOf(Bases[1]) \cup DirsOf(Bases[2])
ScanOrders == {<<"app", "node_modules">>, <<"node_modules", "app">>}
NoPath == <<>>

\* base.rglob: the directories of the walk in the order they are visited,
\* the base itself and then its subdirectories as os.scandir yields them.
Walk(base, order) ==
    <<<<base>>>> \o [i \in 1..Len(order) |-> <<base, order[i]>>]

\* base.rglob('server.js'): the matches in the order they are yielded.
rglob(base, order, files) ==
    LET visited == Walk(base, order)
        HasFile(d) == d \in files
    IN  [i \in 1..Len(SelectSeq(visited, HasFile)) |->
            SelectSeq(visited, HasFile)[i] \o <<"server.js">>]

\* The loop over the two bases: the first match of the first base that
\* has one is taken and both loops end.
FirstMatch(order, files) ==
    LET m1 == rglob(Bases[1], order, files)
        m2 == rglob(Bases[2], order, files)
    IN  IF m1 # <<>> THEN m1[1]
        ELSE IF m2 # <<>> THEN m2[1] ELSE NoPath

\* The packaging command 5a has written the tree: any set of directories
\* may hold a server.js, and the file system lists them in either order.
Unpack ==
    /\ path_pc = "unpacked"
    /\ server_js' \in SUBSET AllDirs
    /\ scandir_order' \in ScanOrders
    /\ path_pc' = "search"
    /\ UNCHANGED <<buildVars, logVars, treeVars, cmdVars, server_path>>

\* The search of step 5b.
FindAppDir ==
    /\ path_pc = "search"
    /\ server_path' = FirstMatch(scandir_order, server_js)
    /\ path_pc' = "searched"
    /\ UNCHANGED <<buildVars, logVars, treeVars, cmdVars, server_js,
                   scandir_order>>

PathNext ==
    \/ Unpack
    \/ FindAppDir

PathSpec == Init /\ [][PathNext]_vars

----------------------------------------------------------------------------
\* Properties.

Range(q) == {q[i] : i \in 1..Len(q)}

IsPrefix(q, r) == Len(q) <= Len(r) /\ SubSeq(r, 1, Len(q)) = q

RebuildSet == {"rebuild1", "rebuild2", "rebuild3"}
InRebuild(c) == c \in RebuildSet
RebuildCalled == SelectSeq(called, InRebuild)
AttemptIndex(c) == CHOOSE k \in 1..3 : RebuildCmds[k] = c

\* The code following a run_command call runs: the worker leaves "ret".
Returns == pc = "ret" /\ pc' # "ret"

\* The entries and callbacks with which run_build reports its outcome.
SuccessEntry == E("build_success", "success")
FailureEntry == E("build_failed", "error")
CriticalEntries == {E("rebuild_critical", "error"),
                    E("app_will_not_start", "error"),
                    E("try_manually", "error")}

\* C1: in the native-rebuild stage the attempts run_command is called with
\* are always the first k of the three methods, in their order; when
\* attempt k returns, exactly attempts 1..k have been called; and when an
\* attempt returns success the next thing run_build does is to call the
\* packaging command 5a, with no further rebuild attempt, no failure entry
\* and no outcome callback; no rebuild attempt is called after 5a.
C1_AttemptsInOrder ==
    /\ IsPrefix(RebuildCalled, RebuildCmds)
    /\ (pc = "ret" /\ cmd \in RebuildSet) =>
          RebuildCalled = SubSeq(RebuildCmds, 1, AttemptIndex(cmd))
    /\ rebuild_success => cmd \in {"pack_5a", "rebuild_5c", "nsis_5d"}

C1_SuccessStep ==
    /\ (Returns /\ cmd \in RebuildSet /\ result) =>
          /\ pc' = "call" /\ cmd' = "pack_5a"
          /\ called' = called
          /\ after_queue' = after_queue
          /\ pushed' \cap ({FailureEntry} \cup CriticalEntries) = {}
    /\ ("pack_5a" \in Range(called) /\ builds' = builds) =>
          RebuildCalled' = RebuildCalled

C1_FirstSuccessEndsRebuild ==
    [](C1_AttemptsInOrder) /\ [][C1_SuccessStep]_vars

\* C1 witness: methods 1 and 2 failed, method 3 succeeded, 5a is called.
C1_Witness ==
    /\ pc = "call" /\ cmd = "pack_5a" /\ rebuild_success
    /\ RebuildCalled = RebuildCmds

\* C2: when the last attempt of a critical stage (method 3 of the rebuild,
\* packaging 5a, installer generation 5d) returns failure, run_build ends
\* at once: it pushes an error entry reporting the failure (the critical
\* rebuild entries or BUILD FEHLGESCHLAGEN), reports no success, calls no
\* further command, and nothing is called or spawned after it has ended.
LastAttempts == {"rebuild3", "pack_5a", "nsis_5d"}

C2_AbortStep ==
    /\ (Returns /\ cmd \in LastAttempts /\ ~result) =>
          /\ pc' = "done"
          /\ called' = called
          /\ IF cmd = "rebuild3" THEN CriticalEntries \subseteq pushed'
                                 ELSE FailureEntry \in pushed'
          /\ SuccessEntry \notin pushed'
          /\ "success" \notin Range(after_queue')
    /\ (pc = "done" /\ builds' = builds) =>
          /\ pc' = "done"
          /\ called' = called
          /\ pushed' = pushed
          /\ process' \in {process, NoProcess}

C2_CriticalFailureAborts == [][C2_AbortStep]_vars

\* C2 witness: all three rebuild methods failed and run_build has ended.
C2_Witness ==
    /\ pc = "done"
    /\ CriticalEntries \subseteq pushed
    /\ called[Len(called)] = "rebuild3"

\* C3 (as claimed): when the command of a non-critical stage (npm install
\* in the root, npm install in app/, rebuild 5c) returns failure, run_build
\* goes on to the next command and has pushed a warning entry recording
\* that failure.
NonCritical == {"npm_root", "npm_app", "rebuild_5c"}
StageFailureWarnings == {E("5c_failed", "warning"),
                         E("5c_version_risk", "warning")}

C3_WarningStep ==
    (Returns /\ cmd \in NonCritical /\ ~result) =>
        /\ pc' = "call"
        /\ \E e \in pushed' : e.tag = "warning" /\ e \in StageFailureWarnings

C3_AmendedStep ==
    (Returns /\ cmd \in NonCritical /\ ~result) =>
        /\ pc' = "call"
        /\ StageOf(cmd') > StageOf(cmd)
        /\ after_queue' = after_queue
        /\ IF cmd = "rebuild_5c"
           THEN StageFailureWarnings \subseteq pushed'
           ELSE \A e \in pushed' :
                   e.tag \in {"warning", "error"} =>
                       e = E("no_electron_version", "warning")

C4_KillStep ==
    (owner_pc = "idle" /\ owner_pc' = "stop_flag" /\ pc = "read") =>
        ~process'.alive

C4_Outcome ==
    (stop_in # None /\ ~is_building /\ pc = "done") =>
        /\ pushed \cap {SuccessEntry, FailureEntry} = {}
        /\ Range(after_queue) \cap {"success", "failed"} = {}

C4_CancelledOutcome == [][C4_KillStep]_vars /\ [](C4_Outcome)

\* C5 (as claimed): while the flag is_building is False during a build, no
\* run_command call spawns a process.
Building == pc \in {"run_build", "call", "popen", "read", "wait", "ret"}
Spawns == pc = "popen" /\ pc' = "read"

C5_NoSpawnAfterCancel ==
    [][(Building /\ ~is_building) => ~Spawns]_vars

\* C6 (as claimed): after stop_build has interrupted an attempt of the
\* native-rebuild stage, no further rebuild attempt is called and neither
\* the critical rebuild entries nor BUILD FEHLGESCHLAGEN are pushed.
C6_CancelStep ==
    (stop_in = "rebuild" /\ builds' = builds) =>
        /\ RebuildCalled' = RebuildCalled
        /\ pushed' \cap (CriticalEntries \cup {FailureEntry}) = {}

C6_CancelIsNotFailure == [][C6_CancelStep]_vars

\* C7 (as claimed): when build_finished has run, the status is a success,
\* failure or error value and no longer the value set by start_build.
Finished == pc = "done" /\ build_button = "normal"

C7_OutcomeReported ==
    Finished => status \in {"success", "failed", "error"}

\* C8 (as claimed): when the check after a successful rebuild finds
\* better_sqlite3.node missing or not updated, the packaging command is not
\* called.
C8_StaleArtifactFails ==
    node_file \in {"missing", "stale"} => ~(pc = "call" /\ cmd = "pack_5a")

\* C8 (amended): when the check after a successful rebuild finds
\* better_sqlite3.node missing or older than 60 seconds, run_build pushes a
\* warning entry saying so, reports no failure and calls the packaging
\* command 5a.
C8_StaleArtifactWarns ==
    node_file \in {"missing", "stale"} =>
        /\ pc = "call" /\ cmd = "pack_5a" /\ rebuild_success
        /\ (IF node_file = "stale" THEN E("node_old", "warning")
                                   ELSE E("node_missing", "warning")) \in pushed
        /\ \A e \in pushed : e.tag # "error"
        /\ E("node_updated", "success") \notin pushed
        /\ "failed" \notin Range(after_queue)

\* C8 witness: the artifact was found not updated and 5a is called.
C8_Witness ==
    node_file = "stale" /\ pc = "call" /\ cmd = "pack_5a"

C10_CompleteBeforeInstaller ==
    /\ nm_before \in {"absent", "incomplete"} =>
          (copied = "ok" /\ isComplete(nm))
    /\ cmd = "nsis_5d" => isComplete(nm)

\* C11: when the repair copy of step 5b has raised, the error has been
\* caught and logged by run_build itself (not by its outer exception
\* handler), run_build has ended without calling 5c or 5d, has pushed BUILD
\* FEHLGESCHLAGEN and no success entry, and the failure status is scheduled
\* or set.
CopyFailedEntry == E("copy_failed", "error")

C11_CopyFailureIsCritical ==
    CopyFailedEntry \in pushed =>
        /\ pc = "done"
        /\ E("exception", "error") \notin pushed
        /\ called[Len(called)] = "pack_5a"
        /\ Range(called) \cap {"rebuild_5c", "nsis_5d"} = {}
        /\ FailureEntry \in pushed /\ SuccessEntry \notin pushed
        /\ "success" \notin Range(after_queue)
        /\ "failed" \in Range(after_queue) \/ status = "failed"

\* C11 witness: the copy failed and the build has ended with the failure
\* status set.
C11_Witness ==
    /\ CopyFailedEntry \in pushed
    /\ Finished /\ status = "failed"

\* C12 (as claimed): when step 5b has found no application directory in the
\* packaged tree, the installer generation 5d is not called.
C12_NoAppDirIsCritical ==
    actual_app_dir = "notfound" => ~(pc = "call" /\ cmd = "nsis_5d")

\* C13: with signing enabled, the pair read by step 5 is the certificate
\* reference with surrounding whitespace removed and the passphrase as it
\* was typed.  When step 5 has read the fields and 5a is about to be called
\* (not yet announced or spawned): both non-empty gives an environment
\* override with both variables; both empty gives an empty override;
\* exactly one non-empty gives an empty override and the warning entry
\* about the incomplete configuration is pushed.  At all times neither the
\* override of a call nor the environment given to a spawned process
\* contains exactly one of CSC_LINK and CSC_KEY_PASSWORD.
CscVars == {"CSC_LINK", "CSC_KEY_PASSWORD"}
IncompleteEntry == E("signing_incomplete", "warning")

C13_SigningPairs ==
    /\ (signing_vars.read /\ signing_vars.signing_enabled_var) =>
          LET link_set == Strip(signing_vars.csc_link_var) # <<>>
              pass_set == signing_vars.csc_password_var # <<>>
          IN  /\ pc = "call" /\ cmd = "pack_5a"
              /\ "pack_5a" \notin Range(called)
              /\ (link_set /\ pass_set) =>
                    (extra_env = CscVars /\ IncompleteEntry \notin pushed)
              /\ (~link_set /\ ~pass_set) =>
                    (extra_env = {} /\ IncompleteEntry \notin pushed)
              /\ (link_set # pass_set) =>
                    (extra_env = {} /\ IncompleteEntry \in pushed)
    /\ Cardinality(extra_env \cap CscVars) # 1
    /\ Cardinality(process.env \cap CscVars) # 1

\* C13 witness: signing is enabled with a certificate reference and no
\* passphrase; the warning is pushed and 5a is about to be called with an
\* empty override.
C13_Witness ==
    /\ signing_vars.read /\ signing_vars.signing_enabled_var
    /\ signing_vars.csc_link_var = <<"x">>
    /\ signing_vars.csc_password_var = <<>>
    /\ IncompleteEntry \in pushed
    /\ pc = "call" /\ cmd = "pack_5a" /\ extra_env = {}

\* C14: at every point of every interleaving of the producer's log() calls
\* with the steps of process_log_queue, the entries written to the log view
\* followed by the entries still pending are exactly the entries put, in
\* put order: nothing is dropped, duplicated or reordered; and when a run of
\* process_log_queue ends having found the queue empty, every entry put so
\* far has been written.
C14_Fifo == log_text \o log_queue = log_calls

C14_Drained ==
    (poll_pc = "loop" /\ poll_pc' = "idle") => log_text' = log_calls'

C14_LogFifoExactlyOnce == [](C14_Fifo) /\ [][C14_Drained]_vars

\* C14 witness: a run of process_log_queue has written two entries while
\* two more entries, put in the meantime, are pending.
C14_Witness ==
    /\ poll_pc = "loop"
    /\ log_text = <<E("a", "info"), E("b", "error")>>
    /\ log_queue = <<E("b", "error"), E("a", "info")>>

\* C15: a worker thread is started only when no worker of an earlier build
\* is still running: at every start of run_build the previous worker, if
\* there was one, has ended; while a worker runs the build button is
\* disabled, so that no start_build arrives, also after stop_build has
\* reset is_building.
C15_StartStep ==
    (builds' # builds) =>
        /\ pc \in {"idle", "done"}
        /\ pc' = "run_build"
        /\ builds' = builds + 1

C15_OneWorker ==
    [](Building => build_button = "disabled") /\ [][C15_StartStep]_vars

\* C15 witness: stop_build has reset is_building and returned while the
\* worker of the build is still running a command.
C15_Witness ==
    /\ ~is_building /\ owner_pc = "idle"
    /\ pc = "read" /\ process.alive
    /\ build_button = "disabled"

\* C16 (as claimed): from the moment run_command has pushed the entry
\* announcing a command until it stops reading the command's output,
\* self.process is the process of that command, and a stop_build invoked in
\* that interval leaves that process terminated.
Announced == pc \in {"popen", "read"}

C16_Published ==
    Announced => (process # NoProcess /\ process.cmd = cmd /\ ~process.reaped)

C16_StopStep ==
    (Announced /\ owner_pc = "idle" /\ owner_pc' = "stop_flag") =>
        (process'.cmd = cmd /\ ~process'.alive)

C16_PublishedBeforeAnnounced == [](C16_Published) /\ [][C16_StopStep]_vars

\* A step in which stop_build or cleanup_processes (from on_close or as the
\* atexit handler) is invoked.
Invoked ==
    \/ owner_pc = "idle" /\ owner_pc' \in {"stop_flag", "atexit"}
    \/ owner_pc = "atexit" /\ owner_pc' = "exited"

\* C17 (as claimed): when kill_process_tree has been called on the process
\* of a command, neither that process nor any process it has spawned is
\* still running, on win32 and on the other hosts, also when getpgid or
\* killpg raises and the single-pid fallback is taken.
C17_TerminatedStep ==
    (Invoked /\ process # NoProcess) =>
        /\ ~process'.alive
        /\ \A k \in Kids : children'[k] # "running"

C17_WholeTreeTerminated == [][C17_TerminatedStep]_vars

\* C18: an invocation of stop_build or cleanup_processes when no process
\* was ever spawned, or when the process has already exited (on posix: has
\* exited and been collected by wait()), changes neither the process, nor
\* the processes it has spawned, nor the builder; and the state any
\* invocation leaves is one that a further invocation would leave as it
\* is: a second termination changes nothing.
Gone(p) ==
    \/ p = NoProcess
    \/ platform = "win32" /\ ~p.alive
    \/ platform = "posix" /\ p.reaped

C18_InvocationStep ==
    Invoked =>
        /\ Gone(process) =>
              /\ process' = process
              /\ children' = children
              /\ host_alive' = host_alive
        /\ host_alive' =>
              /\ Gone(process')
              /\ kill_process_tree(process') = process'
              /\ kill_descendants(process', children') = children'

C19_FlagStep ==
    (build_button = "disabled" /\ ~is_building) => ~is_building'

C19_FlagNeverCleared == [][C19_FlagStep]_vars

\* C19 witness: stop_build has reset the flag while a command was being
\* read, and the worker of that build has ended with the flag still reset.
C19_Witness ==
    /\ stop_in # None /\ ~is_building
    /\ pc = "done" /\ build_button = "disabled"

\* The tag the claimed precedence gives a line.
HasError(text) ==
    Contains(Lower(text), <<"e", "r", "r", "o", "r">>)
      \/ Contains(text, <<Glyph>>)
HasWarn(text) == Contains(Lower(text), <<"w", "a", "r", "n">>)
TagOf(text) ==
    IF HasError(text) THEN "error"
    ELSE IF HasWarn(text) THEN "warning" ELSE "info"

\* A readline of run_command that returns a line.
ReadsLine == pc = "read" /\ process'.buf < process.buf

\* C20 (as claimed): every line run_command reads is pushed to the log as
\* exactly one entry, tagged error if it contains "error" in any letter
\* case or the failure glyph, otherwise warning if it contains "warn",
\* otherwise info, before the next line is read.
C20_EveryLineTagged ==
    /\ [][ReadsLine => line' # NoLine]_vars
    /\ [](line # NoLine =>
             \E e \in pushed :
                 /\ pushed = {e}
                 /\ e.tag = TagOf(RStrip(line)))

\* C20 (amended): every line run_command reads while is_building is True
\* and which is not blank once its trailing whitespace is removed is
\* pushed as exactly one entry, the stripped line with the tag of the
\* claimed precedence, before the next line is read; a blank line pushes
\* no entry; the line read when is_building is False ends the loop and
\* pushes no entry.
C20_ReadStep ==
    ReadsLine =>
        IF is_building
        THEN line' # NoLine /\ pc' = "read"
        ELSE line' = NoLine /\ pushed' = {} /\ pc' = "wait"

C20_Tagged ==
    line # NoLine =>
        LET text == RStrip(line)
        IN  IF text = <<>>
            THEN pushed = {}
            ELSE pushed = {[msg |-> "output", tag |-> TagOf(text),
                            text |-> text]}

C20_NonBlankLineTagged == [](C20_Tagged) /\ [][C20_ReadStep]_vars

\* C20 witness: a line with both "Warn" and "ERROR" has been read and
\* pushed with the tag error.
C20_Witness ==
    /\ pc = "read"
    /\ HasWarn(RStrip(line))
    /\ Contains(RStrip(line), <<"E", "R", "R", "O", "R">>)
    /\ \E e \in pushed : e.tag = "error"

\* The run_command call in progress has spawned the command (Popen did not
\* raise) and stop_build has not been invoked since the build started.
Spawned == process # NoProcess /\ process.cmd = cmd
NotCancelled == is_building /\ owner_pc = "idle"

\* C21: when readline has returned '' with the build not cancelled,
\* run_command waits for the process and returns True exactly when the exit
\* code is zero, whatever tags the lines of the command were logged with;
\* reading and tagging a line changes neither the exit code nor the return
\* value.
C21_WaitStep ==
    /\ (pc = "read" /\ pc' = "wait" /\ NotCancelled) =>
          (~process.alive /\ process.buf = 0)
    /\ (pc = "wait" /\ pc' # "wait") =>
          /\ pc' = "ret"
          /\ ~process.alive /\ process'.reaped
          /\ result' = (process.rc = 0)
          /\ output' = output
    /\ (pc = "read" /\ output' # output) =>
          (result' = result /\ process'.rc = process.rc)

C21_Returned ==
    (pc = "ret" /\ Spawned) => (result <=> process.rc = 0)

C21_ExitCodeDecides == [](C21_Returned) /\ [][C21_WaitStep]_vars

\* C21 witness: a command whose only logged line was tagged error has
\* exited with code 0 and run_command has returned True, uncancelled.
C21_Witness ==
    /\ pc = "ret" /\ Spawned /\ NotCancelled
    /\ owner_pushed = {E("build_started", "step")}
    /\ output = <<"error">>
    /\ process.rc = 0 /\ result

\* C22: when Popen raises, run_command pushes an error entry and returns
\* False: nothing is spawned, the handle is left as it was and no callback
\* is scheduled.  The code after the call then does what it does for any
\* False: after method 1 or 2 of the rebuild the next method is called,
\* after method 3 the critical rebuild entries are pushed, after 5a or 5d
\* the failure is reported, after the other commands the next command is
\* called; in no case is the exception entry pushed or the error status
\* scheduled.
SpawnFailedEntry == E("spawn_failed", "error")
ExceptionEntry == E("exception", "error")

C22_SpawnStep ==
    (pc = "popen" /\ pc' # "popen") =>
        \/ pc' = "read" /\ process'.cmd = cmd /\ process'.alive
        \/ /\ pc' = "ret" /\ ~result'
           /\ pushed' = {SpawnFailedEntry}
           /\ process' = process
           /\ after_queue' = after_queue

C22_CallerStep ==
    (Returns /\ SpawnFailedEntry \in pushed) =>
        /\ ~result
        /\ ExceptionEntry \notin pushed'
        /\ "error" \notin Range(after_queue')
        /\ CASE cmd = "rebuild1" -> pc' = "call" /\ cmd' = "rebuild2"
             [] cmd = "rebuild2" -> pc' = "call" /\ cmd' = "rebuild3"
             [] cmd = "rebuild3" ->
                    pc' = "done" /\ CriticalEntries \subseteq pushed'
             [] cmd \in {"pack_5a", "nsis_5d"} ->
                    pc' = "done" /\ FailureEntry \in pushed'
             [] OTHER -> pc' = "call" /\ StageOf(cmd') > StageOf(cmd)

C22_SpawnFailureIsFailedAttempt ==
    [][C22_SpawnStep]_vars /\ [][C22_CallerStep]_vars

\* C22 witness: methods 1 and 2 of the rebuild could not be spawned (the
\* handle is still that of an earlier command), method 3 has been called
\* after them and could not be spawned either.
C22_Witness ==
    /\ pc = "ret" /\ cmd = "rebuild3" /\ ~result
    /\ SpawnFailedEntry \in pushed
    /\ RebuildCalled = RebuildCmds
    /\ process.cmd \notin RebuildSet

\* Lexicographic order of paths, component by component, the components
\* in the order of their characters.
NameRank(n) ==
    CASE n = "app" -> 1
      [] n = "app.asar.unpacked" -> 2
      [] n = "node_modules" -> 3
      [] n = "server.js" -> 4

RECURSIVE LexLess(_, _)
LexLess(p, q) ==
    IF p = <<>> THEN q # <<>>
    ELSE IF q = <<>> THEN FALSE
    ELSE IF p[1] # q[1] THEN NameRank(p[1]) < NameRank(q[1])
    ELSE LexLess(Tail(p), Tail(q))

\* All matches of the recursive search below one base.
MatchesBelow(base) ==
    {d \o <<"server.js">> : d \in server_js \cap DirsOf(base)}

\* C23 (as claimed): when the search below a base has several matches, the
\* match taken is the first in lexicographic path order, whatever the order
\* in which the file system lists the directories.
C23_LexicographicFirst ==
    (path_pc = "searched" /\ server_path # NoPath) =>
        \A m \in MatchesBelow(server_path[1]) :
            m = server_path \/ LexLess(server_path, m)

\* C24 (as claimed): whenever the flag is_building has been reset during a
\* build, the worker eventually ends and build_finished runs.
Cancelled == Building /\ ~is_building

C24_WorkerEnds == Cancelled ~> Finished

\* C25 (as claimed): the success entry is pushed, and the success status
\* scheduled, only when the final search has found the marker dependency;
\* when it has found node_modules without the marker, or no node_modules,
\* the failure is reported.
VerifiedEntry == E("verified", "success")
UnverifiedEntries == {E("no_dotenv", "warning"), E("no_node_modules", "error")}

C25_SuccessOnlyIfVerified ==
    /\ SuccessEntry \in pushed => VerifiedEntry \in pushed
    /\ pushed \cap UnverifiedEntries # {} =>
          (FailureEntry \in pushed /\ SuccessEntry \notin pushed)

\* C26 (as claimed): run_build does not report success in a build in which
\* stop_build has run: when it pushes the success entry, is_building has
\* not been reset since start_build.
ReportsSuccess == pc # "done" /\ pc' = "done" /\ SuccessEntry \in pushed'

C26_NoSuccessAfterStop == [][ReportsSuccess => is_building]_vars

\* C27 (as claimed): no invocation of stop_build terminates the builder
\* itself, on any platform.
StopInvoked == owner_pc = "idle" /\ owner_pc' = "stop_flag"

C27_CancelKeepsHost == [][StopInvoked => host_alive']_vars

\* C28 (as claimed): when stop_build finds a handle in self.process and
\* terminates its process tree, the handle is that of the command the
\* worker is executing, spawned by the run_command call in progress and
\* not yet collected by wait().
C28_StopStep ==
    (StopInvoked /\ process # NoProcess) =>
        /\ pc \in {"read", "wait"}
        /\ process.cmd = cmd
        /\ ~process.reaped

C28_NoStaleHandle == [][C28_StopStep]_vars

\* The messages of a sequence of entries.
Msgs(q) == [i \in 1..Len(q) |-> q[i].msg]

IsSuffix(q, r) ==
    Len(q) <= Len(r) /\ SubSeq(r, Len(r) - Len(q) + 1, Len(r)) = q

\* C29 (as claimed): whenever no log() call is in progress, the lines of
\* the log file are the messages put on the queue since the file was set,
\* in the order in which they were put.
C29_FileFollowsQueue ==
    (log_file.set /\ log_pc.at = "idle" /\ owner_log_pc.at = "idle") =>
        IsSuffix(log_file.lines, Msgs(log_calls))

\* C30: the environment override of a run_command call, and of the
\* process it spawns, is empty for every command but the packaging command
\* 5a and the installer generation 5d; for these two it is the signing
\* environment step 5 prepared, which is either empty or both CSC_LINK and
\* CSC_KEY_PASSWORD, is prepared only by step 5 and is empty when step 5
\* read signing as disabled, whatever the credential fields hold.
SigningCmds == {"pack_5a", "nsis_5d"}

C30_Override ==
    /\ extra_env # {} => (cmd \in SigningCmds /\ extra_env = CscVars)
    /\ process.env # {} =>
          (process.cmd \in SigningCmds /\ process.env = CscVars)
    /\ (cmd \in SigningCmds /\ pc # "done") => extra_env = signing_env
    /\ (signing_vars.read /\ ~signing_vars.signing_enabled_var) =>
          (signing_env = {} /\ extra_env = {})

C30_Step ==
    /\ signing_env' # signing_env => (signing_vars'.read \/ pc' = "done")
    /\ (pc = "popen" /\ pc' = "read") =>
          (process'.cmd = cmd /\ process'.env = extra_env)

C30_CredentialsOnlyToPackaging == [](C30_Override) /\ [][C30_Step]_vars

\* C30 witness: the installer generation 5d runs with both variables in
\* its environment after the rebuild 5c has been called without them.
C30_Witness ==
    /\ pc = "read" /\ cmd = "nsis_5d"
    /\ process.cmd = "nsis_5d" /\ process.env = CscVars
    /\ "rebuild_5c" \in Range(called)

====
